---- MODULE Spec2Model ----
(***************************************************************************)
(* A model of the doppio core enumerations (src/src/enums.ts) and of the   *)
(* threading test class (src/classes/test/Threading.java).                 *)
(*                                                                         *)
(*  - the construction of the opcode layout table `olt`                    *)
(*    (enums.ts lines 403-448), step by step as the module body runs it;   *)
(*  - assignOpcodeLayout called with arbitrary arguments;                  *)
(*  - the thread lifecycle machine over ThreadStatus, with monitors and    *)
(*    interrupts, and the producer/consumer program of Threading.java      *)
(*    running on it;                                                       *)
(*  - the class lifecycle machine over ClassState;                         *)
(*  - the numeric constants of Constants.                                  *)
(*                                                                         *)
(* The enumerations are translated from enums.ts.  The code that moves a   *)
(* thread or a class between the states (doppio's Thread, Monitor and      *)
(* class loader) is not among the source files: those transitions follow   *)
(* the written specification, sections 4.2, 4.3 and 7.                     *)
(***************************************************************************)
EXTENDS Integers, Sequences, FiniteSets, TLC

VARIABLES
  \* ---- opcode layout table (enums.ts 403-448)
  olt,        \* the array: a function from the indices that hold a value
  pc,         \* position of the module body: "init", "assign", "done"
  i,          \* loop variable of the initialising loop (line 408)
  cur,        \* index in LayoutCalls of the running assignOpcodeLayout call, 0 if none
  k,          \* position of forEach inside the running call's opcode list
  applied,    \* indices of the assignOpcodeLayout calls that have returned
  writes,     \* history: how often assignOpcodeLayout stored into olt[opcode]
  outOfOrder, \* history: some call was begun out of source order
  ncalls,     \* number of assignOpcodeLayout calls made with arbitrary arguments
  \* ---- thread lifecycle machine (ThreadStatus, enums.ts 29-55)
  status,      \* thread -> ThreadStatus
  interrupted, \* thread -> its interrupt-pending flag
  owner,       \* monitor -> the thread holding it, NoThread if free
  holdCount,   \* monitor -> hold count of its owner
  wants,       \* thread -> the monitor it must hold before it goes on, NoMonitor if none
  waitingOn,   \* thread -> the monitor whose wait set it is in, NoMonitor if none
  savedCount,  \* thread -> the hold count it takes up when granted the monitor it wants
  lastOp,      \* the interrupt, query or fault the last step was, NoOp otherwise
  \* ---- producer and consumer (Threading.java 32-86)
  n,           \* Q.n
  valueSet,    \* Q.valueSet
  ppc,         \* position of the Producer thread in run()/put()
  cpc,         \* position of the Consumer thread in run()/get()
  pi,          \* loop variable i of Producer.run
  ret,         \* value the last q.get() returned
  got,         \* history: the values get() reported, in order
  \* ---- class lifecycle machine (ClassState, enums.ts 6-17)
  classState,  \* class -> ClassState
  lastAdvance, \* the last advance request and its outcome
  \* ---- numeric constants (Constants, enums.ts 81-91)
  bits,        \* a 32-bit pattern, as its high and low 16-bit halves
  asInt        \* the pattern read as a 32-bit two's-complement integer

oltVars == << olt, pc, i, cur, k, applied, writes, outOfOrder, ncalls >>

thrVars == << status, interrupted, owner, holdCount, wants, waitingOn, savedCount, lastOp >>

progVars == << n, valueSet, ppc, cpc, pi, ret, got >>

clsVars == << classState, lastAdvance >>

numVars == << bits, asInt >>

nonOltVars == << thrVars, progVars, clsVars, numVars >>

nonThrVars == << oltVars, progVars, clsVars, numVars >>

vars == << oltVars, thrVars, progVars, clsVars, numVars >>

(***************************************************************************)
(* Bounds of the model.                                                    *)
(***************************************************************************)
\* Number of assignOpcodeLayout calls with arbitrary arguments (SpecAssign).
MaxCalls == 3

\* Longest opcode list of such a call.
MaxListLen == 2

\* Threads of the thread lifecycle machine.
NumThreads == 2

\* Most values the history of get() keeps.
MaxObserved == 6

\* Classes of the class lifecycle machine.
NumClasses == 3

\* Largest low half-word of the bit patterns tried, besides 0xFFFF.
MaxLowHalf == 15

\* Largest hold count a thread builds up by re-entering a monitor.
MaxHold == 2

(***************************************************************************)
(* enums.ts: ClassState (lines 6-17); TypeScript numbers the members       *)
(* 0, 1, 2, 3 in the order written.                                        *)
(***************************************************************************)
\* Mutant: RESOLVED is written before LOADED.
ClassStateReordered ==
  [ NOT_LOADED |-> 0, RESOLVED |-> 1, LOADED |-> 2, INITIALIZED |-> 3 ]

ClassState ==
  [ NOT_LOADED |-> 0, LOADED |-> 1, RESOLVED |-> 2, INITIALIZED |-> 3 ]

\* The values of ClassState.
ClassStates == { ClassState[f] : f \in DOMAIN ClassState }

(***************************************************************************)
(* The class lifecycle machine.  The class loader is not among the source  *)
(* files; the transitions are those of the written specification,          *)
(* sections 4.3 and 7: a class advances one state at a time, in the order  *)
(* of the enumeration.                                                     *)
(***************************************************************************)
Classes == 1..NumClasses

\* An advance request and how it ended.
Request(class, target, result) ==
  [ class |-> class, target |-> target, result |-> result ]

NoRequest == Request(0, 0, "none")

\* "Created NOT_LOADED when a class reference is first encountered."
ClsInit ==
  /\ classState = [ c \in Classes |-> ClassState.NOT_LOADED ]
  /\ lastAdvance = NoRequest

\* The state that follows st in the enumeration.
NextClassState(st) == st + 1

\* advance(class, targetState): the next state is taken; a state the class
\* has reached already is a no-op success; a state further ahead is
\* rejected with a state-precondition fault.
Advance(c, target) ==
  /\ IF target = NextClassState(classState[c])
       THEN /\ classState' = [ classState EXCEPT ![c] = target ]
            /\ lastAdvance' = Request(c, target, "advanced")
       ELSE IF target <= classState[c]
              THEN /\ classState' = classState
                   /\ lastAdvance' = Request(c, target, "noop")
              ELSE /\ classState' = classState
                   /\ lastAdvance' = Request(c, target, "fault")
  /\ UNCHANGED << oltVars, thrVars, progVars, numVars >>

AdvanceAny == \E c \in Classes, target \in ClassStates : Advance(c, target)

(***************************************************************************)
(* enums.ts: ThreadStatus (lines 29-55); TypeScript numbers the members    *)
(* 0, 1, 2, ... in the order written.  NEW is a reserved word of TLA+: the *)
(* status NEW is the field NEW_.                                           *)
(***************************************************************************)
ThreadStatus ==
  [ NEW_ |-> 0, RUNNING |-> 1, RUNNABLE |-> 2, BLOCKED |-> 3,
    UNINTERRUPTABLY_BLOCKED |-> 4, WAITING |-> 5, TIMED_WAITING |-> 6,
    ASYNC_WAITING |-> 7, PARKED |-> 8, TERMINATED |-> 9 ]

(***************************************************************************)
(* The thread lifecycle machine.  doppio's Thread and Monitor classes are  *)
(* not among the source files; the transitions below are those of the      *)
(* written specification, section 4.2 (and sections 5 and 7).              *)
(***************************************************************************)
Threads == 1..NumThreads

\* The monitor of the Q object of Threading.java (line 26), the one monitor
\* the program waits and notifies on.
Q == 1

Monitors == {Q}

NoThread == 0

NoMonitor == 0

\* What the last step was, for the steps the properties speak about.
Op(kind, by, thread, result) ==
  [ kind |-> kind, by |-> by, thread |-> thread, result |-> result ]

NoOp == Op("none", NoThread, NoThread, FALSE)

\* The thread that starts the program is running; the others are not started.
ThrInit ==
  /\ status = [ t \in Threads |->
                  IF t = 1 THEN ThreadStatus.RUNNING ELSE ThreadStatus.NEW_ ]
  /\ interrupted = [ t \in Threads |-> FALSE ]
  /\ owner = [ m \in Monitors |-> NoThread ]
  /\ holdCount = [ m \in Monitors |-> 0 ]
  /\ wants = [ t \in Threads |-> NoMonitor ]
  /\ waitingOn = [ t \in Threads |-> NoMonitor ]
  /\ savedCount = [ t \in Threads |-> 0 ]
  /\ lastOp = NoOp

\* t is running and owes no monitor: it can execute its next instruction.
CanAct(t) == status[t] = ThreadStatus.RUNNING /\ wants[t] = NoMonitor

\* Mutant: the scheduler selects a thread while another runs.
SelectRegardless == TRUE

\* "Exactly one RUNNING thread may exist at any instant."
NoneRunning == \A t \in Threads : status[t] # ThreadStatus.RUNNING

\* The threads queued on monitor m.
Queued(m) ==
  { b \in Threads :
      /\ status[b] \in { ThreadStatus.BLOCKED, ThreadStatus.UNINTERRUPTABLY_BLOCKED }
      /\ wants[b] = m }

\* "On release, exactly one blocked waiter is granted the monitor":
\* the threads a release of m may grant it to; NoThread when none is queued.
Grantees(m) == IF Queued(m) = {} THEN {NoThread} ELSE Queued(m)

\* The threads in the wait set of m.
Waiters(m) == { w \in Threads : waitingOn[w] = m }

\* NEW -> start() -> RUNNABLE.
Start(s, t) ==
  /\ CanAct(s)
  /\ status[t] = ThreadStatus.NEW_
  /\ status' = [ status EXCEPT ![t] = ThreadStatus.RUNNABLE ]
  /\ lastOp' = NoOp
  /\ UNCHANGED << interrupted, owner, holdCount, wants, waitingOn, savedCount >>

\* RUNNABLE -> scheduler selects -> RUNNING, when no thread is running.
Schedule(t) ==
  /\ status[t] = ThreadStatus.RUNNABLE
  /\ NoneRunning
  /\ status' = [ status EXCEPT ![t] = ThreadStatus.RUNNING ]
  /\ lastOp' = NoOp
  /\ UNCHANGED << interrupted, owner, holdCount, wants, waitingOn, savedCount >>

\* RUNNING -> scheduler preempts/yields -> RUNNABLE.
Yield(t) ==
  /\ status[t] = ThreadStatus.RUNNING
  /\ status' = [ status EXCEPT ![t] = ThreadStatus.RUNNABLE ]
  /\ lastOp' = NoOp
  /\ UNCHANGED << interrupted, owner, holdCount, wants, waitingOn, savedCount >>

\* RUNNING -> run body completes -> TERMINATED; a run body has left its
\* synchronized regions when it completes.
Terminate(t) ==
  /\ CanAct(t)
  /\ \A m \in Monitors : owner[m] # t
  /\ status' = [ status EXCEPT ![t] = ThreadStatus.TERMINATED ]
  /\ lastOp' = NoOp
  /\ UNCHANGED << interrupted, owner, holdCount, wants, waitingOn, savedCount >>

\* Acquire: free -> hold count 1; held by self -> hold count + 1;
\* held by another -> BLOCKED and queued.
MonitorEnter(t, m) ==
  /\ CanAct(t)
  /\ \/ /\ owner[m] = NoThread
        /\ owner' = [ owner EXCEPT ![m] = t ]
        /\ holdCount' = [ holdCount EXCEPT ![m] = 1 ]
        /\ UNCHANGED << status, wants, savedCount >>
     \/ /\ owner[m] = t
        /\ holdCount[m] < MaxHold
        /\ holdCount' = [ holdCount EXCEPT ![m] = @ + 1 ]
        /\ UNCHANGED << status, owner, wants, savedCount >>
     \/ /\ owner[m] \notin { NoThread, t }
        /\ status' = [ status EXCEPT ![t] = ThreadStatus.BLOCKED ]
        /\ wants' = [ wants EXCEPT ![t] = m ]
        /\ savedCount' = [ savedCount EXCEPT ![t] = 1 ]
        /\ UNCHANGED << owner, holdCount >>
  /\ lastOp' = NoOp
  /\ UNCHANGED << interrupted, waitingOn >>

\* The owner t gives m up: it goes to the queued thread g, which becomes
\* RUNNABLE holding it, or m is free when g is NoThread.  st and sc are the
\* status and saved counts as the caller has left them for t.
Handover(t, m, g, st, sc) ==
  /\ owner' = [ owner EXCEPT ![m] = g ]
  /\ holdCount' = [ holdCount EXCEPT ![m] = IF g = NoThread THEN 0 ELSE savedCount[g] ]
  /\ status' = IF g = NoThread THEN st ELSE [ st EXCEPT ![g] = ThreadStatus.RUNNABLE ]
  /\ savedCount' = IF g = NoThread THEN sc ELSE [ sc EXCEPT ![g] = 0 ]

\* Release: the hold count drops; at zero the monitor is given up.
MonitorExit(t, m) ==
  /\ CanAct(t)
  /\ owner[m] = t
  /\ \/ /\ holdCount[m] > 1
        /\ holdCount' = [ holdCount EXCEPT ![m] = @ - 1 ]
        /\ UNCHANGED << status, owner, wants, savedCount >>
     \/ /\ holdCount[m] = 1
        /\ \E g \in Grantees(m) :
             /\ Handover(t, m, g, status, savedCount)
             /\ wants' = IF g = NoThread THEN wants ELSE [ wants EXCEPT ![g] = NoMonitor ]
  /\ lastOp' = NoOp
  /\ UNCHANGED << interrupted, waitingOn >>

\* wait() on m, with no timeout (WAITING) or with one (TIMED_WAITING): the
\* caller must hold m; it gives m up, enters the wait set, and must have
\* m again before it returns.  Without m: a fault.
MonitorWait(t, m, timed) ==
  /\ CanAct(t)
  /\ \/ /\ owner[m] # t
        /\ lastOp' = Op("fault", t, t, FALSE)
        /\ UNCHANGED << status, owner, holdCount, wants, waitingOn, savedCount >>
     \/ /\ owner[m] = t
        /\ \E g \in Grantees(m) :
             /\ Handover(t, m, g,
                  [ status EXCEPT ![t] = IF timed THEN ThreadStatus.TIMED_WAITING
                                                  ELSE ThreadStatus.WAITING ],
                  [ savedCount EXCEPT ![t] = holdCount[m] ])
             /\ wants' = IF g = NoThread
                           THEN [ wants EXCEPT ![t] = m ]
                           ELSE [ wants EXCEPT ![t] = m, ![g] = NoMonitor ]
        /\ waitingOn' = [ waitingOn EXCEPT ![t] = m ]
        /\ lastOp' = NoOp
  /\ UNCHANGED interrupted

\* notify() on m: the caller must hold m; exactly one waiter, if any, is
\* woken: WAITING/TIMED_WAITING -> notified -> RUNNABLE.
MonitorNotify(t, m) ==
  /\ CanAct(t)
  /\ \/ /\ owner[m] # t
        /\ lastOp' = Op("fault", t, t, FALSE)
        /\ UNCHANGED << status, waitingOn >>
     \/ /\ owner[m] = t
        /\ Waiters(m) = {}
        /\ lastOp' = NoOp
        /\ UNCHANGED << status, waitingOn >>
     \/ /\ owner[m] = t
        /\ \E w \in Waiters(m) :
             /\ status' = [ status EXCEPT ![w] = ThreadStatus.RUNNABLE ]
             /\ waitingOn' = [ waitingOn EXCEPT ![w] = NoMonitor ]
        /\ lastOp' = NoOp
  /\ UNCHANGED << interrupted, owner, holdCount, wants, savedCount >>

\* notifyAll() on m wakes all waiters.
MonitorNotifyAll(t, m) ==
  /\ CanAct(t)
  /\ owner[m] = t
  /\ status' = [ w \in Threads |->
                   IF w \in Waiters(m) THEN ThreadStatus.RUNNABLE ELSE status[w] ]
  /\ waitingOn' = [ w \in Threads |->
                      IF w \in Waiters(m) THEN NoMonitor ELSE waitingOn[w] ]
  /\ lastOp' = NoOp
  /\ UNCHANGED << interrupted, owner, holdCount, wants, savedCount >>

\* A woken waiter runs again: "on wake reacquires the monitor before
\* returning".  Free: it holds m with the hold count it had; held: BLOCKED.
Reacquire(t) ==
  /\ status[t] = ThreadStatus.RUNNING
  /\ wants[t] # NoMonitor
  /\ \/ /\ owner[wants[t]] = NoThread
        /\ owner' = [ owner EXCEPT ![wants[t]] = t ]
        /\ holdCount' = [ holdCount EXCEPT ![wants[t]] = savedCount[t] ]
        /\ wants' = [ wants EXCEPT ![t] = NoMonitor ]
        /\ savedCount' = [ savedCount EXCEPT ![t] = 0 ]
        /\ UNCHANGED status
     \/ /\ owner[wants[t]] # NoThread
        /\ status' = [ status EXCEPT ![t] = ThreadStatus.BLOCKED ]
        /\ UNCHANGED << owner, holdCount, wants, savedCount >>
  /\ lastOp' = NoOp
  /\ UNCHANGED << interrupted, waitingOn >>

\* TIMED_WAITING -> timeout elapses -> RUNNABLE.
Timeout(w) ==
  /\ status[w] = ThreadStatus.TIMED_WAITING
  /\ status' = [ status EXCEPT ![w] = ThreadStatus.RUNNABLE ]
  /\ waitingOn' = [ waitingOn EXCEPT ![w] = NoMonitor ]
  /\ lastOp' = NoOp
  /\ UNCHANGED << interrupted, owner, holdCount, wants, savedCount >>

\* RUNNING -> call a park primitive -> PARKED.
Park(t) ==
  /\ CanAct(t)
  /\ status' = [ status EXCEPT ![t] = ThreadStatus.PARKED ]
  /\ lastOp' = NoOp
  /\ UNCHANGED << interrupted, owner, holdCount, wants, waitingOn, savedCount >>

\* RUNNING -> call an async/browser-bridging wait -> ASYNC_WAITING.
AsyncWait(t) ==
  /\ CanAct(t)
  /\ status' = [ status EXCEPT ![t] = ThreadStatus.ASYNC_WAITING ]
  /\ lastOp' = NoOp
  /\ UNCHANGED << interrupted, owner, holdCount, wants, waitingOn, savedCount >>

\* PARKED -> unparked by a running thread -> RUNNABLE; ASYNC_WAITING -> the
\* operation completes -> RUNNABLE.
Resume(w) ==
  /\ \/ status[w] = ThreadStatus.ASYNC_WAITING
     \/ status[w] = ThreadStatus.PARKED /\ \E s \in Threads : CanAct(s)
  /\ status' = [ status EXCEPT ![w] = ThreadStatus.RUNNABLE ]
  /\ lastOp' = NoOp
  /\ UNCHANGED << interrupted, owner, holdCount, wants, waitingOn, savedCount >>

\* Mutant: the interrupt is delivered to a BLOCKED thread like to a waiting one.
StatusAfterInterruptDelivered(st) ==
  IF st \in { ThreadStatus.WAITING, ThreadStatus.TIMED_WAITING,
              ThreadStatus.ASYNC_WAITING, ThreadStatus.PARKED, ThreadStatus.BLOCKED }
    THEN ThreadStatus.RUNNABLE
    ELSE st

\* The status interrupt() leaves a thread of status st in:
\* WAITING/TIMED_WAITING/ASYNC_WAITING/PARKED -> RUNNABLE;
\* BLOCKED -> UNINTERRUPTABLY_BLOCKED; any other status stays.
StatusAfterInterrupt(st) ==
  IF st \in { ThreadStatus.WAITING, ThreadStatus.TIMED_WAITING,
              ThreadStatus.ASYNC_WAITING, ThreadStatus.PARKED }
    THEN ThreadStatus.RUNNABLE
    ELSE IF st = ThreadStatus.BLOCKED
           THEN ThreadStatus.UNINTERRUPTABLY_BLOCKED
           ELSE st

\* The flag interrupt() leaves on a thread of status st whose flag was f:
\* set, except that interrupting a TERMINATED thread is a no-op.
FlagAfterInterrupt(st, f) ==
  IF st = ThreadStatus.TERMINATED THEN f ELSE TRUE

\* s calls interrupt() on t (t may be s).
Interrupt(s, t) ==
  /\ CanAct(s)
  /\ status' = [ status EXCEPT ![t] = StatusAfterInterrupt(@) ]
  /\ interrupted' = [ interrupted EXCEPT ![t] = FlagAfterInterrupt(status[t], @) ]
  /\ waitingOn' = [ waitingOn EXCEPT ![t] = NoMonitor ]
  /\ lastOp' = Op("interrupt", s, t, FALSE)
  /\ UNCHANGED << owner, holdCount, wants, savedCount >>

\* The flag the peeking query leaves: as it was.
FlagAfterPeek(f) == f

\* s asks isInterrupted of t: the peeking form, the flag is left as it is.
IsInterrupted(s, t) ==
  /\ CanAct(s)
  /\ lastOp' = Op("peek", s, t, interrupted[t])
  /\ interrupted' = [ interrupted EXCEPT ![t] = FlagAfterPeek(@) ]
  /\ UNCHANGED << status, owner, holdCount, wants, waitingOn, savedCount >>

\* Mutant: the consuming query leaves the flag as the peeking one does.
FlagKept(f) == f

\* The flag the consuming query leaves: cleared.
FlagAfterConsume(f) == FALSE

\* s asks interrupted() of itself: the consuming form, the flag is cleared.
Interrupted(s) ==
  /\ CanAct(s)
  /\ lastOp' = Op("consume", s, s, interrupted[s])
  /\ interrupted' = [ interrupted EXCEPT ![s] = FlagAfterConsume(@) ]
  /\ UNCHANGED << status, owner, holdCount, wants, waitingOn, savedCount >>

(***************************************************************************)
(* enums.ts: Constants (lines 81-91).  A 32-bit pattern is kept as its two *)
(* 16-bit halves, so that no value computed here leaves the 32-bit range.  *)
(***************************************************************************)
\* INT_MAX = Math.pow(2, 31) - 1.
INT_MAX == 2147483647

\* INT_MIN = -INT_MAX - 1.
INT_MIN == -INT_MAX - 1

\* FLOAT_POS_INFINITY_AS_INT = 0x7F800000.
FLOAT_POS_INFINITY_AS_INT == 2139095040

\* Mutant: the sign of the literal is lost.
NegInfinitySignDropped == 2^23

\* FLOAT_NEG_INFINITY_AS_INT = -8388608.
FLOAT_NEG_INFINITY_AS_INT == -8388608

\* FLOAT_NaN_AS_INT = 0x7fc00000.
FLOAT_NaN_AS_INT == 2143289344

\* The pattern with high half-word hi and low half-word lo, read as a 32-bit
\* two's-complement integer.
SignedInt32(hi, lo) ==
  IF hi >= 32768 THEN (hi - 65536) * 65536 + lo ELSE hi * 65536 + lo

\* High half-words tried: 0x0000, 0x7F80, 0x7FC0, 0x7FFF, 0x8000, 0xFF80, 0xFFFF.
HighHalves == { 0, 32640, 32704, 32767, 32768, 65408, 65535 }

LowHalves == (0..MaxLowHalf) \cup { 65535 }

\* The bit patterns of the IEEE-754 single-precision infinities:
\* 0x7F800000 and 0xFF800000.
PosInfinityBits == << 32640, 0 >>

NegInfinityBits == << 65408, 0 >>

NumInit ==
  /\ bits = << 0, 0 >>
  /\ asInt = 0

\* A bit pattern is read as a 32-bit integer.
Reinterpret(hi, lo) ==
  /\ bits' = << hi, lo >>
  /\ asInt' = SignedInt32(hi, lo)
  /\ UNCHANGED << oltVars, thrVars, progVars, clsVars >>

ReinterpretAny == \E hi \in HighHalves, lo \in LowHalves : Reinterpret(hi, lo)

(***************************************************************************)
(* enums.ts: OpCode (lines 158-385).  NEW is a reserved word of TLA+: the   *)
(* opcode NEW is the field NEW_.                                           *)
(***************************************************************************)
OpCode ==
  [ AALOAD |-> 50, AASTORE |-> 83, ACONST_NULL |-> 1, ALOAD |-> 25,
    ALOAD_0 |-> 42, ALOAD_1 |-> 43, ALOAD_2 |-> 44, ALOAD_3 |-> 45,
    ANEWARRAY |-> 189, ARETURN |-> 176, ARRAYLENGTH |-> 190, ASTORE |-> 58,
    ASTORE_0 |-> 75, ASTORE_1 |-> 76, ASTORE_2 |-> 77, ASTORE_3 |-> 78,
    ATHROW |-> 191, BALOAD |-> 51, BASTORE |-> 84, BIPUSH |-> 16,
    BREAKPOINT |-> 202, CALOAD |-> 52, CASTORE |-> 85, CHECKCAST |-> 192,
    D2F |-> 144, D2I |-> 142, D2L |-> 143, DADD |-> 99,
    DALOAD |-> 49, DASTORE |-> 82, DCMPG |-> 152, DCMPL |-> 151,
    DCONST_0 |-> 14, DCONST_1 |-> 15, DDIV |-> 111, DLOAD |-> 24,
    DLOAD_0 |-> 38, DLOAD_1 |-> 39, DLOAD_2 |-> 40, DLOAD_3 |-> 41,
    DMUL |-> 107, DNEG |-> 119, DREM |-> 115, DRETURN |-> 175,
    DSTORE |-> 57, DSTORE_0 |-> 71, DSTORE_1 |-> 72, DSTORE_2 |-> 73,
    DSTORE_3 |-> 74, DSUB |-> 103, DUP |-> 89, DUP_X1 |-> 90,
    DUP_X2 |-> 91, DUP2 |-> 92, DUP2_X1 |-> 93, DUP2_X2 |-> 94,
    F2D |-> 141, F2I |-> 139, F2L |-> 140, FADD |-> 98,
    FALOAD |-> 48, FASTORE |-> 81, FCMPG |-> 150, FCMPL |-> 149,
    FCONST_0 |-> 11, FCONST_1 |-> 12, FCONST_2 |-> 13, FDIV |-> 110,
    FLOAD |-> 23, FLOAD_0 |-> 34, FLOAD_1 |-> 35, FLOAD_2 |-> 36,
    FLOAD_3 |-> 37, FMUL |-> 106, FNEG |-> 118, FREM |-> 114,
    FRETURN |-> 174, FSTORE |-> 56, FSTORE_0 |-> 67, FSTORE_1 |-> 68,
    FSTORE_2 |-> 69, FSTORE_3 |-> 70, FSUB |-> 102, GETFIELD |-> 180,
    GETSTATIC |-> 178, GOTO |-> 167, GOTO_W |-> 200, I2B |-> 145,
    I2C |-> 146, I2D |-> 135, I2F |-> 134, I2L |-> 133,
    I2S |-> 147, IADD |-> 96, IALOAD |-> 46, IAND |-> 126,
    IASTORE |-> 79, ICONST_M1 |-> 2, ICONST_0 |-> 3, ICONST_1 |-> 4,
    ICONST_2 |-> 5, ICONST_3 |-> 6, ICONST_4 |-> 7, ICONST_5 |-> 8,
    IDIV |-> 108, IF_ACMPEQ |-> 165, IF_ACMPNE |-> 166, IF_ICMPEQ |-> 159,
    IF_ICMPGE |-> 162, IF_ICMPGT |-> 163, IF_ICMPLE |-> 164, IF_ICMPLT |-> 161,
    IF_ICMPNE |-> 160, IFEQ |-> 153, IFGE |-> 156, IFGT |-> 157,
    IFLE |-> 158, IFLT |-> 155, IFNE |-> 154, IFNONNULL |-> 199,
    IFNULL |-> 198, IINC |-> 132, ILOAD |-> 21, ILOAD_0 |-> 26,
    ILOAD_1 |-> 27, ILOAD_2 |-> 28, ILOAD_3 |-> 29, IMUL |-> 104,
    INEG |-> 116, INSTANCEOF |-> 193, INVOKEDYNAMIC |-> 186, INVOKEINTERFACE |-> 185,
    INVOKESPECIAL |-> 183, INVOKESTATIC |-> 184, INVOKEVIRTUAL |-> 182, IOR |-> 128,
    IREM |-> 112, IRETURN |-> 172, ISHL |-> 120, ISHR |-> 122,
    ISTORE |-> 54, ISTORE_0 |-> 59, ISTORE_1 |-> 60, ISTORE_2 |-> 61,
    ISTORE_3 |-> 62, ISUB |-> 100, IUSHR |-> 124, IXOR |-> 130,
    JSR |-> 168, JSR_W |-> 201, L2D |-> 138, L2F |-> 137,
    L2I |-> 136, LADD |-> 97, LALOAD |-> 47, LAND |-> 127,
    LASTORE |-> 80, LCMP |-> 148, LCONST_0 |-> 9, LCONST_1 |-> 10,
    LDC |-> 18, LDC_W |-> 19, LDC2_W |-> 20, LDIV |-> 109,
    LLOAD |-> 22, LLOAD_0 |-> 30, LLOAD_1 |-> 31, LLOAD_2 |-> 32,
    LLOAD_3 |-> 33, LMUL |-> 105, LNEG |-> 117, LOOKUPSWITCH |-> 171,
    LOR |-> 129, LREM |-> 113, LRETURN |-> 173, LSHL |-> 121,
    LSHR |-> 123, LSTORE |-> 55, LSTORE_0 |-> 63, LSTORE_1 |-> 64,
    LSTORE_2 |-> 65, LSTORE_3 |-> 66, LSUB |-> 101, LUSHR |-> 125,
    LXOR |-> 131, MONITORENTER |-> 194, MONITOREXIT |-> 195, MULTIANEWARRAY |-> 197,
    NEW_ |-> 187, NEWARRAY |-> 188, NOP |-> 0, POP |-> 87,
    POP2 |-> 88, PUTFIELD |-> 181, PUTSTATIC |-> 179, RET |-> 169,
    RETURN |-> 177, SALOAD |-> 53, SASTORE |-> 86, SIPUSH |-> 17,
    SWAP |-> 95, TABLESWITCH |-> 170, WIDE |-> 196, GETSTATIC_FAST32 |-> 208,
    GETSTATIC_FAST64 |-> 209, NEW_FAST |-> 210, NEW_CL_FAST |-> 211, NEW_THREAD_FAST |-> 212,
    ANEWARRAY_FAST |-> 213, CHECKCAST_FAST |-> 214, INSTANCEOF_FAST |-> 215, MULTIANEWARRAY_FAST |-> 216,
    PUTSTATIC_FAST32 |-> 217, PUTSTATIC_FAST64 |-> 218, GETFIELD_FAST32 |-> 219, GETFIELD_FAST64 |-> 220,
    PUTFIELD_FAST32 |-> 221, PUTFIELD_FAST64 |-> 222, INVOKESPECIAL_FAST |-> 223, INVOKESTATIC_FAST |-> 240,
    INVOKEVIRTUAL_FAST |-> 241, INVOKEINTERFACE_FAST |-> 242 ]

(***************************************************************************)
(* enums.ts: OpcodeLayoutType (lines 387-401); TypeScript numbers the      *)
(* members 0, 1, 2, ... in the order written.                              *)
(***************************************************************************)
OpcodeLayoutType ==
  [ OPCODE_ONLY |-> 0, CONSTANT_POOL_UINT8 |-> 1, CONSTANT_POOL |-> 2,
    CONSTANT_POOL_AND_UINT8_VALUE |-> 3, UINT8_VALUE |-> 4,
    UINT8_AND_INT8_VALUE |-> 5, INT8_VALUE |-> 6, INT16_VALUE |-> 7,
    INT32_VALUE |-> 8, ARRAY_TYPE |-> 9, WIDE |-> 10 ]

\* The values of OpcodeLayoutType.
LayoutTypes == { OpcodeLayoutType[f] : f \in DOMAIN OpcodeLayoutType }

\* What JavaScript reads from an array index that holds nothing.
undefined == -1

\* new Array(0xff): the length of olt and the bound of the loop (lines 406, 408).
OltLength == 255

\* All byte values an instruction stream can hold.
Bytes == 0..255

(***************************************************************************)
(* The nine assignOpcodeLayout calls of the module body (lines 418-446),   *)
(* in source order.                                                        *)
(***************************************************************************)
\* Opcode list of the UINT8_VALUE call (lines 418-421).
Opcodes_UINT8_VALUE ==
  << OpCode.ALOAD, OpCode.ASTORE, OpCode.DLOAD, OpCode.DSTORE,
     OpCode.FLOAD, OpCode.FSTORE, OpCode.ILOAD, OpCode.ISTORE,
     OpCode.LLOAD, OpCode.LSTORE, OpCode.RET >>

\* Opcode list of the CONSTANT_POOL_UINT8 call (line 422).
Opcodes_CONSTANT_POOL_UINT8 ==
  << OpCode.LDC >>

\* Opcode list of the CONSTANT_POOL call (lines 423-435).
Opcodes_CONSTANT_POOL ==
  << OpCode.LDC_W, OpCode.LDC2_W, OpCode.ANEWARRAY, OpCode.CHECKCAST,
     OpCode.GETFIELD, OpCode.GETSTATIC, OpCode.INSTANCEOF, OpCode.INVOKEDYNAMIC,
     OpCode.INVOKESPECIAL, OpCode.INVOKESTATIC, OpCode.INVOKEVIRTUAL, OpCode.NEW_,
     OpCode.PUTFIELD, OpCode.PUTSTATIC, OpCode.MULTIANEWARRAY_FAST, OpCode.INVOKESPECIAL_FAST,
     OpCode.INVOKESTATIC_FAST, OpCode.CHECKCAST_FAST, OpCode.NEW_FAST, OpCode.NEW_CL_FAST,
     OpCode.NEW_THREAD_FAST, OpCode.ANEWARRAY_FAST, OpCode.INSTANCEOF_FAST, OpCode.GETSTATIC_FAST32,
     OpCode.GETSTATIC_FAST64, OpCode.PUTSTATIC_FAST32, OpCode.PUTSTATIC_FAST64, OpCode.PUTFIELD_FAST32,
     OpCode.PUTFIELD_FAST64, OpCode.GETFIELD_FAST32, OpCode.GETFIELD_FAST64, OpCode.INVOKEVIRTUAL_FAST >>

\* Mutant: MULTIANEWARRAY_FAST is added beside its source opcode while the
\* CONSTANT_POOL call still lists it.
Opcodes_CONSTANT_POOL_AND_UINT8_VALUE_Repeated ==
  << OpCode.INVOKEINTERFACE, OpCode.MULTIANEWARRAY, OpCode.INVOKEINTERFACE_FAST,
     OpCode.MULTIANEWARRAY_FAST >>

\* Opcode list of the CONSTANT_POOL_AND_UINT8_VALUE call (lines 436-437).
Opcodes_CONSTANT_POOL_AND_UINT8_VALUE ==
  << OpCode.INVOKEINTERFACE, OpCode.MULTIANEWARRAY, OpCode.INVOKEINTERFACE_FAST >>

\* Opcode list of the INT8_VALUE call (line 438).
Opcodes_INT8_VALUE ==
  << OpCode.BIPUSH >>

\* Opcode list of the INT16_VALUE call (lines 439-443).
Opcodes_INT16_VALUE ==
  << OpCode.SIPUSH, OpCode.GOTO, OpCode.IFGT, OpCode.IFEQ,
     OpCode.IFGE, OpCode.IFLE, OpCode.IFLT, OpCode.IFNE,
     OpCode.IFNULL, OpCode.IFNONNULL, OpCode.IF_ICMPLE, OpCode.IF_ACMPEQ,
     OpCode.IF_ACMPNE, OpCode.IF_ICMPEQ, OpCode.IF_ICMPGE, OpCode.IF_ICMPGT,
     OpCode.IF_ICMPLT, OpCode.IF_ICMPNE, OpCode.JSR >>

\* Opcode list of the INT32_VALUE call (line 444).
Opcodes_INT32_VALUE ==
  << OpCode.GOTO_W, OpCode.JSR_W >>

\* Opcode list of the UINT8_AND_INT8_VALUE call (line 445).
Opcodes_UINT8_AND_INT8_VALUE ==
  << OpCode.IINC >>

\* Opcode list of the ARRAY_TYPE call (line 446).
Opcodes_ARRAY_TYPE ==
  << OpCode.NEWARRAY >>

LayoutCalls ==
  << [ layoutType |-> OpcodeLayoutType.UINT8_VALUE, opcodes |-> Opcodes_UINT8_VALUE ],
     [ layoutType |-> OpcodeLayoutType.CONSTANT_POOL_UINT8, opcodes |-> Opcodes_CONSTANT_POOL_UINT8 ],
     [ layoutType |-> OpcodeLayoutType.CONSTANT_POOL, opcodes |-> Opcodes_CONSTANT_POOL ],
     [ layoutType |-> OpcodeLayoutType.CONSTANT_POOL_AND_UINT8_VALUE, opcodes |-> Opcodes_CONSTANT_POOL_AND_UINT8_VALUE ],
     [ layoutType |-> OpcodeLayoutType.INT8_VALUE, opcodes |-> Opcodes_INT8_VALUE ],
     [ layoutType |-> OpcodeLayoutType.INT16_VALUE, opcodes |-> Opcodes_INT16_VALUE ],
     [ layoutType |-> OpcodeLayoutType.INT32_VALUE, opcodes |-> Opcodes_INT32_VALUE ],
     [ layoutType |-> OpcodeLayoutType.UINT8_AND_INT8_VALUE, opcodes |-> Opcodes_UINT8_AND_INT8_VALUE ],
     [ layoutType |-> OpcodeLayoutType.ARRAY_TYPE, opcodes |-> Opcodes_ARRAY_TYPE ] >>

NumLayoutCalls == Len(LayoutCalls)

\* olt[idx] = v on a JavaScript array: the index holds v afterwards, any
\* other index is untouched (line 409, line 414).
StoreOlt(a, idx, v) ==
  [ x \in (DOMAIN a) \cup {idx} |-> IF x = idx THEN v ELSE a[x] ]

\* OpcodeLayouts[b] (line 448: OpcodeLayouts is olt): the value held at b,
\* undefined where the array holds nothing.
OpcodeLayoutsAt(b) == IF b \in DOMAIN olt THEN olt[b] ELSE undefined

\* The empty array of line 406: no index holds a value.
EmptyArray == [ x \in {} |-> undefined ]

\* No store made yet.
NoWrites == [ b \in {} |-> 0 ]

\* How often assignOpcodeLayout has stored into olt[b].
WritesAt(b) == IF b \in DOMAIN writes THEN writes[b] ELSE 0

\* The history after n more stores into olt[b].
CountStore(w, b, cnt) ==
  IF cnt = 0 THEN w
  ELSE [ x \in (DOMAIN w) \cup {b} |->
           IF x = b THEN (IF b \in DOMAIN w THEN w[b] ELSE 0) + cnt ELSE w[x] ]

OltInit ==
  /\ olt = EmptyArray
  /\ pc = "init"
  /\ i = 0
  /\ cur = 0
  /\ k = 0
  /\ applied = {}
  /\ writes = NoWrites
  /\ outOfOrder = FALSE
  /\ ncalls = 0

\* One iteration of the loop of lines 408-410.
InitSlot ==
  /\ pc = "init"
  /\ i < OltLength
  /\ olt' = StoreOlt(olt, i, OpcodeLayoutType.OPCODE_ONLY)
  /\ i' = i + 1
  /\ UNCHANGED << pc, cur, k, applied, writes, outOfOrder, ncalls >>
  /\ UNCHANGED nonOltVars

\* The loop test fails: the module body goes on to the assignment calls.
InitLoopExit ==
  /\ pc = "init"
  /\ ~(i < OltLength)
  /\ pc' = "assign"
  /\ UNCHANGED << olt, i, cur, k, applied, writes, outOfOrder, ncalls >>
  /\ UNCHANGED nonOltVars

\* The call that source order runs next.
NextInSource == Cardinality(applied) + 1

\* assignOpcodeLayout is entered with the arguments of call c (line 412).
BeginCall(c) ==
  /\ pc = "assign"
  /\ cur = 0
  /\ c \in (1..NumLayoutCalls) \ applied
  /\ cur' = c
  /\ k' = 1
  /\ outOfOrder' = (outOfOrder \/ c # NextInSource)
  /\ UNCHANGED << olt, pc, i, applied, writes, ncalls >>
  /\ UNCHANGED nonOltVars

\* One iteration of opcodes.forEach (lines 413-415): olt[opcode] = layoutType.
AssignElem ==
  /\ pc = "assign"
  /\ cur # 0
  /\ k <= Len(LayoutCalls[cur].opcodes)
  /\ LET opcode == LayoutCalls[cur].opcodes[k]
     IN /\ olt' = StoreOlt(olt, opcode, LayoutCalls[cur].layoutType)
        /\ writes' = CountStore(writes, opcode, 1)
  /\ k' = k + 1
  /\ UNCHANGED << pc, i, cur, applied, outOfOrder, ncalls >>
  /\ UNCHANGED nonOltVars

\* forEach is through the list: assignOpcodeLayout returns (line 416).
EndCall ==
  /\ pc = "assign"
  /\ cur # 0
  /\ k > Len(LayoutCalls[cur].opcodes)
  /\ applied' = applied \cup {cur}
  /\ cur' = 0
  /\ k' = 0
  /\ UNCHANGED << olt, pc, i, writes, outOfOrder, ncalls >>
  /\ UNCHANGED nonOltVars

\* export var OpcodeLayouts = olt (line 448): construction is complete.
Export ==
  /\ pc = "assign"
  /\ cur = 0
  /\ applied = 1..NumLayoutCalls
  /\ pc' = "done"
  /\ UNCHANGED << olt, i, cur, k, applied, writes, outOfOrder, ncalls >>
  /\ UNCHANGED nonOltVars

\* The module body as written: the calls in source order.
BeginNextCall == BeginCall(NextInSource)

\* The calls in any order.
BeginAnyCall == \E c \in 1..NumLayoutCalls : BeginCall(c)

OltNext ==
  \/ InitSlot
  \/ InitLoopExit
  \/ BeginNextCall
  \/ AssignElem
  \/ EndCall
  \/ Export

OltNextAnyOrder ==
  \/ InitSlot
  \/ InitLoopExit
  \/ BeginAnyCall
  \/ AssignElem
  \/ EndCall
  \/ Export

(***************************************************************************)
(* assignOpcodeLayout as one step, on arguments of the caller's choice.    *)
(***************************************************************************)
\* Arguments tried: three layout types, lists over three opcodes.
AssignLayouts ==
  { OpcodeLayoutType.CONSTANT_POOL, OpcodeLayoutType.UINT8_VALUE,
    OpcodeLayoutType.WIDE }

AssignOpcodes == { OpCode.NEW_, OpCode.NEW_FAST, OpCode.WIDE }

AssignLists ==
  UNION { [ 1..len -> AssignOpcodes ] : len \in 1..MaxListLen }

RECURSIVE ForEachStore(_, _, _, _)
\* opcodes.forEach from position j on (lines 413-415), on array a.
ForEachStore(a, layoutType, opcodes, j) ==
  IF j > Len(opcodes)
    THEN a
    ELSE ForEachStore(StoreOlt(a, opcodes[j], layoutType), layoutType, opcodes, j + 1)

\* The array assignOpcodeLayout(layoutType, opcodes) leaves (lines 412-416).
assignOpcodeLayout(a, layoutType, opcodes) ==
  ForEachStore(a, layoutType, opcodes, 1)

\* How often b occurs in the list.
Occurrences(opcodes, b) ==
  Cardinality({ j \in 1..Len(opcodes) : opcodes[j] = b })

\* The array after the loop of lines 408-410 has run to its end.
InitialisedArray == [ x \in 0..(OltLength - 1) |-> OpcodeLayoutType.OPCODE_ONLY ]

AssignInit ==
  /\ olt = InitialisedArray
  /\ pc = "assign"
  /\ i = OltLength
  /\ cur = 0
  /\ k = 0
  /\ applied = {}
  /\ writes = NoWrites
  /\ outOfOrder = FALSE
  /\ ncalls = 0

\* A call assignOpcodeLayout(layoutType, opcodes): it stores and returns;
\* the function holds no test and no throw (lines 412-416).
AssignCall(layoutType, opcodes) ==
  /\ pc = "assign"
  /\ ncalls < MaxCalls
  /\ olt' = assignOpcodeLayout(olt, layoutType, opcodes)
  /\ writes' = [ b \in (DOMAIN writes) \cup { opcodes[j] : j \in 1..Len(opcodes) } |->
                  WritesAt(b) + Occurrences(opcodes, b) ]
  /\ ncalls' = ncalls + 1
  /\ UNCHANGED << pc, i, cur, k, applied, outOfOrder >>
  /\ UNCHANGED nonOltVars

AssignAny ==
  \E layoutType \in AssignLayouts, opcodes \in AssignLists :
    AssignCall(layoutType, opcodes)

\* The module body reaches its end (line 448) after the calls made.
ExportAny ==
  /\ pc = "assign"
  /\ pc' = "done"
  /\ UNCHANGED << olt, i, cur, k, applied, writes, outOfOrder, ncalls >>
  /\ UNCHANGED nonOltVars

NextAssign ==
  \/ AssignAny
  \/ ExportAny

(***************************************************************************)
(* Threading.java: the producer and the consumer (lines 32-86), running    *)
(* on the thread machine above.  get() and put() are synchronized: the     *)
(* monitor of q is entered at the call and left at the return.             *)
(***************************************************************************)
\* The threads new Thread(this, "Producer") and new Thread(this, "Consumer").
Producer == 1

Consumer == 2

\* for (int i=0; i<5; ++i) (line 69).
ProducerCount == 5

\* if (q.get() == 4) break (line 83).
LastValue == 4

\* Mutant: get() never waits for a value.
GetNeverWaits == FALSE

\* if(!valueSet) wait() in get (lines 37-39).
GetMustWait == ~valueSet

\* if(valueSet) wait() in put (lines 49-51).
PutMustWait == valueSet

\* The fields of a new Q (lines 34-35) and the two threads before they run.
ProgInit ==
  /\ n = 0
  /\ valueSet = FALSE
  /\ ppc = "call"
  /\ cpc = "call"
  /\ pi = 0
  /\ ret = 0
  /\ got = << >>

\* main has run new Producer(q) and new Consumer(q) (lines 26-28, 66, 79)
\* and returned: both threads are started and none is running yet.  A run
\* in which the producer runs before the consumer is started is the run
\* here in which the consumer is not selected for that long.
PCThrInit ==
  /\ status = [ t \in Threads |->
                  IF t \in { Producer, Consumer } THEN ThreadStatus.RUNNABLE
                                                  ELSE ThreadStatus.NEW_ ]
  /\ interrupted = [ t \in Threads |-> FALSE ]
  /\ owner = [ m \in Monitors |-> NoThread ]
  /\ holdCount = [ m \in Monitors |-> 0 ]
  /\ wants = [ t \in Threads |-> NoMonitor ]
  /\ waitingOn = [ t \in Threads |-> NoMonitor ]
  /\ savedCount = [ t \in Threads |-> 0 ]
  /\ lastOp = NoOp

\* A step that leaves the tables alone.
ProgOnly == UNCHANGED << oltVars, clsVars, numVars >>

\* Producer.run calls q.put(i) (lines 69-70): the monitor of q is entered.
PutEnter ==
  /\ ppc = "call"
  /\ pi < ProducerCount
  /\ MonitorEnter(Producer, Q)
  /\ ppc' = "check"
  /\ UNCHANGED << n, valueSet, cpc, pi, ret, got >>
  /\ ProgOnly

\* if(valueSet) wait() (lines 49-54).
PutCheck ==
  /\ ppc = "check"
  /\ CanAct(Producer)
  /\ IF PutMustWait
       THEN MonitorWait(Producer, Q, FALSE)
       ELSE UNCHANGED thrVars
  /\ ppc' = "body"
  /\ UNCHANGED << n, valueSet, cpc, pi, ret, got >>
  /\ ProgOnly

\* this.n = n; valueSet = true; notify() (lines 55-58).
PutBody ==
  /\ ppc = "body"
  /\ n' = pi
  /\ valueSet' = TRUE
  /\ MonitorNotify(Producer, Q)
  /\ ppc' = "exit"
  /\ UNCHANGED << cpc, pi, ret, got >>
  /\ ProgOnly

\* put returns (line 59), the monitor is left; ++i (line 69).
PutExit ==
  /\ ppc = "exit"
  /\ MonitorExit(Producer, Q)
  /\ pi' = pi + 1
  /\ ppc' = "call"
  /\ UNCHANGED << n, valueSet, cpc, ret, got >>
  /\ ProgOnly

\* The loop of Producer.run is through (line 69): run returns.
ProducerEnd ==
  /\ ppc = "call"
  /\ ~(pi < ProducerCount)
  /\ Terminate(Producer)
  /\ ppc' = "end"
  /\ UNCHANGED << n, valueSet, cpc, pi, ret, got >>
  /\ ProgOnly

\* Consumer.run calls q.get() (line 83): the monitor of q is entered.
GetEnter ==
  /\ cpc = "call"
  /\ MonitorEnter(Consumer, Q)
  /\ cpc' = "check"
  /\ UNCHANGED << n, valueSet, ppc, pi, ret, got >>
  /\ ProgOnly

\* if(!valueSet) wait() (lines 37-42).
GetCheck ==
  /\ cpc = "check"
  /\ CanAct(Consumer)
  /\ IF GetMustWait
       THEN MonitorWait(Consumer, Q, FALSE)
       ELSE UNCHANGED thrVars
  /\ cpc' = "body"
  /\ UNCHANGED << n, valueSet, ppc, pi, ret, got >>
  /\ ProgOnly

\* "Got: " + n; valueSet = false; notify(); return n (lines 43-46).
GetBody ==
  /\ cpc = "body"
  /\ Len(got) < MaxObserved
  /\ got' = Append(got, n)
  /\ valueSet' = FALSE
  /\ MonitorNotify(Consumer, Q)
  /\ ret' = n
  /\ cpc' = "exit"
  /\ UNCHANGED << n, ppc, pi >>
  /\ ProgOnly

\* get returns (line 47), the monitor is left; if (q.get() == 4) break (line 83).
GetExit ==
  /\ cpc = "exit"
  /\ MonitorExit(Consumer, Q)
  /\ cpc' = IF ret = LastValue THEN "break" ELSE "call"
  /\ UNCHANGED << n, valueSet, ppc, pi, ret, got >>
  /\ ProgOnly

\* break (line 83): Consumer.run returns.
ConsumerEnd ==
  /\ cpc = "break"
  /\ Terminate(Consumer)
  /\ cpc' = "end"
  /\ UNCHANGED << n, valueSet, ppc, pi, ret, got >>
  /\ ProgOnly

\* The scheduler and the monitor hand-back, which run no program text.
PCSchedule == \E t \in { Producer, Consumer } : Schedule(t) /\ UNCHANGED progVars /\ ProgOnly

PCYield == \E t \in { Producer, Consumer } : Yield(t) /\ UNCHANGED progVars /\ ProgOnly

PCReacquire(t) == Reacquire(t) /\ UNCHANGED progVars /\ ProgOnly

\* What the Producer thread does when it runs.
ProducerStep ==
  \/ PutEnter
  \/ PutCheck
  \/ PutBody
  \/ PutExit
  \/ ProducerEnd
  \/ PCReacquire(Producer)

\* What the Consumer thread does when it runs.
ConsumerStep ==
  \/ GetEnter
  \/ GetCheck
  \/ GetBody
  \/ GetExit
  \/ ConsumerEnd
  \/ PCReacquire(Consumer)

(***************************************************************************)
(* The specifications.                                                     *)
(***************************************************************************)
Init == OltInit /\ ThrInit /\ ProgInit /\ ClsInit /\ NumInit

Next == OltNext

\* Construction of the table as enums.ts runs it.
Spec == Init /\ [][Next]_vars

InitOrder == OltInit /\ ThrInit /\ ProgInit /\ ClsInit /\ NumInit

NextOrder == OltNextAnyOrder

\* Construction of the table with the assignment calls permuted.
SpecOrder == InitOrder /\ [][NextOrder]_vars

InitAssign == AssignInit /\ ThrInit /\ ProgInit /\ ClsInit /\ NumInit

\* assignOpcodeLayout under calls of the caller's choice.
SpecAssign == InitAssign /\ [][NextAssign]_vars

InitPC == OltInit /\ PCThrInit /\ ProgInit /\ ClsInit /\ NumInit

NextPC ==
  \/ PCSchedule
  \/ PCYield
  \/ ProducerStep
  \/ ConsumerStep

\* Fair scheduling: a thread is selected whenever none runs and one can,
\* and a thread that is selected again and again executes instructions.
FairPC ==
  /\ WF_vars(PCSchedule)
  /\ SF_vars(ProducerStep)
  /\ SF_vars(ConsumerStep)

\* The producer and the consumer under every interleaving, fairly scheduled.
SpecPC == InitPC /\ [][NextPC]_vars /\ FairPC

InitThreads == OltInit /\ ThrInit /\ ProgInit /\ ClsInit /\ NumInit

\* A step of the thread machine alone.
ThrOnly == UNCHANGED nonThrVars

\* Any event of the machine, on any thread and monitor.
NextThreads ==
  \/ \E s, t \in Threads : Start(s, t) /\ ThrOnly
  \/ \E t \in Threads : Schedule(t) /\ ThrOnly
  \/ \E t \in Threads : Yield(t) /\ ThrOnly
  \/ \E t \in Threads : Terminate(t) /\ ThrOnly
  \/ \E t \in Threads, m \in Monitors : MonitorEnter(t, m) /\ ThrOnly
  \/ \E t \in Threads, m \in Monitors : MonitorExit(t, m) /\ ThrOnly
  \/ \E t \in Threads, m \in Monitors, timed \in BOOLEAN : MonitorWait(t, m, timed) /\ ThrOnly
  \/ \E t \in Threads, m \in Monitors : MonitorNotify(t, m) /\ ThrOnly
  \/ \E t \in Threads, m \in Monitors : MonitorNotifyAll(t, m) /\ ThrOnly
  \/ \E t \in Threads : Reacquire(t) /\ ThrOnly
  \/ \E t \in Threads : Timeout(t) /\ ThrOnly
  \/ \E t \in Threads : Park(t) /\ ThrOnly
  \/ \E t \in Threads : AsyncWait(t) /\ ThrOnly
  \/ \E t \in Threads : Resume(t) /\ ThrOnly
  \/ \E s, t \in Threads : Interrupt(s, t) /\ ThrOnly
  \/ \E s, t \in Threads : IsInterrupted(s, t) /\ ThrOnly
  \/ \E s \in Threads : Interrupted(s) /\ ThrOnly

\* The thread lifecycle machine under any sequence of events.
SpecThreads == InitThreads /\ [][NextThreads]_vars

InitClass == OltInit /\ ThrInit /\ ProgInit /\ ClsInit /\ NumInit

NextClass == AdvanceAny

\* The class lifecycle machine under any sequence of advance requests.
SpecClass == InitClass /\ [][NextClass]_vars

InitNum == OltInit /\ ThrInit /\ ProgInit /\ ClsInit /\ NumInit

NextNum == ReinterpretAny

\* Bit patterns read as 32-bit integers.
SpecNum == InitNum /\ [][NextNum]_vars

(***************************************************************************)
(* The table in source order, computed at once.                            *)
(***************************************************************************)
RECURSIVE ApplyCalls(_, _)
\* The array after the calls c, c+1, ... of LayoutCalls, in that order.
ApplyCalls(a, c) ==
  IF c > NumLayoutCalls
    THEN a
    ELSE ApplyCalls(assignOpcodeLayout(a, LayoutCalls[c].layoutType,
                                       LayoutCalls[c].opcodes), c + 1)

\* The table the module body builds (lines 406-446).
TableInSourceOrder == ApplyCalls(InitialisedArray, 1)

(***************************************************************************)
(* Claims about the opcode layout table.                                   *)
(***************************************************************************)
\* The opcodes some assignOpcodeLayout call of the module body lists.
ListedOpcodes ==
  UNION { { LayoutCalls[c].opcodes[j] : j \in 1..Len(LayoutCalls[c].opcodes) } :
            c \in 1..NumLayoutCalls }

\* C1: once the table is built, OpcodeLayouts[b] is a layout type for every
\* byte b in 0..255, and it is OPCODE_ONLY for every b that no
\* assignOpcodeLayout call lists (0xFE and 0xFF among them).
C1_TotalWithDefault ==
  pc = "done" =>
    \A b \in Bytes :
      /\ OpcodeLayoutsAt(b) \in LayoutTypes
      /\ (b \notin ListedOpcodes =>
            OpcodeLayoutsAt(b) = OpcodeLayoutType.OPCODE_ONLY)

\* Each 'fast' opcode (lines 365-384) with the opcode it specialises.
FastSources ==
  { << OpCode.GETSTATIC_FAST32, OpCode.GETSTATIC >>,
    << OpCode.GETSTATIC_FAST64, OpCode.GETSTATIC >>,
    << OpCode.NEW_FAST, OpCode.NEW_ >>,
    << OpCode.NEW_CL_FAST, OpCode.NEW_ >>,
    << OpCode.NEW_THREAD_FAST, OpCode.NEW_ >>,
    << OpCode.ANEWARRAY_FAST, OpCode.ANEWARRAY >>,
    << OpCode.CHECKCAST_FAST, OpCode.CHECKCAST >>,
    << OpCode.INSTANCEOF_FAST, OpCode.INSTANCEOF >>,
    << OpCode.MULTIANEWARRAY_FAST, OpCode.MULTIANEWARRAY >>,
    << OpCode.PUTSTATIC_FAST32, OpCode.PUTSTATIC >>,
    << OpCode.PUTSTATIC_FAST64, OpCode.PUTSTATIC >>,
    << OpCode.GETFIELD_FAST32, OpCode.GETFIELD >>,
    << OpCode.GETFIELD_FAST64, OpCode.GETFIELD >>,
    << OpCode.PUTFIELD_FAST32, OpCode.PUTFIELD >>,
    << OpCode.PUTFIELD_FAST64, OpCode.PUTFIELD >>,
    << OpCode.INVOKESPECIAL_FAST, OpCode.INVOKESPECIAL >>,
    << OpCode.INVOKESTATIC_FAST, OpCode.INVOKESTATIC >>,
    << OpCode.INVOKEVIRTUAL_FAST, OpCode.INVOKEVIRTUAL >>,
    << OpCode.INVOKEINTERFACE_FAST, OpCode.INVOKEINTERFACE >> }

\* C2: once the table is built, every fast opcode has the layout of the
\* opcode it specialises.
C2_FastLayoutIsSourceLayout ==
  pc = "done" =>
    \A p \in FastSources : OpcodeLayoutsAt(p[1]) = OpcodeLayoutsAt(p[2])

\* C3: whatever the order of the assignOpcodeLayout calls, no opcode is
\* stored into twice (the lists are pairwise disjoint and free of repeats),
\* and the finished table gives every listed opcode the layout of its call
\* and equals the table built in source order.
C3_DisjointOrderFree ==
  /\ \A b \in Bytes : WritesAt(b) <= 1
  /\ pc = "done" =>
       /\ \A c \in 1..NumLayoutCalls :
            \A j \in 1..Len(LayoutCalls[c].opcodes) :
              /\ WritesAt(LayoutCalls[c].opcodes[j]) = 1
              /\ OpcodeLayoutsAt(LayoutCalls[c].opcodes[j]) = LayoutCalls[c].layoutType
       /\ olt = TableInSourceOrder

\* C3 witness: the table is finished after calls made out of source order.
C3_Witness ==
  /\ pc = "done"
  /\ outOfOrder
  /\ WritesAt(OpCode.MULTIANEWARRAY) = 1
  /\ WritesAt(OpCode.MULTIANEWARRAY_FAST) = 1

\* C4: no construction ends normally after an assignOpcodeLayout call has
\* stored into an opcode that an earlier store already targeted.
C4_DuplicateAssignmentFails ==
  ~(pc = "done" /\ \E b \in Bytes : WritesAt(b) >= 2)

(***************************************************************************)
(* Claims about the thread lifecycle machine.                              *)
(***************************************************************************)
\* The values the producer emits, in order.
Emitted == [ j \in 1..ProducerCount |-> j - 1 ]

\* s is an initial segment of t.
IsPrefix(s, t) == Len(s) <= Len(t) /\ \A j \in 1..Len(s) : s[j] = t[j]

\* Both threads have terminated and the consumer has seen all the values.
BothDone ==
  /\ status[Producer] = ThreadStatus.TERMINATED
  /\ status[Consumer] = ThreadStatus.TERMINATED
  /\ got = Emitted

\* C5: under every fair interleaving of the producer and the consumer, the
\* values get() reports are at all times an initial segment of 0,1,2,3,4
\* (none twice, none skipped, in order), and eventually both threads have
\* terminated with all five values reported.
C5_ProducerConsumer ==
  /\ [](IsPrefix(got, Emitted))
  /\ <>[]BothDone

\* C5 witness: both run bodies have returned and the consumer has reported
\* 0,1,2,3,4.
C5_Witness == BothDone /\ ppc = "end" /\ cpc = "end"

C7_SelfInterruptAndQueries ==
  [][\A t \in Threads :
       /\ (lastOp'.kind = "interrupt" /\ lastOp'.by = t /\ lastOp'.thread = t)
            => /\ status[t] = ThreadStatus.RUNNING
               /\ status'[t] = ThreadStatus.RUNNING
               /\ interrupted'[t]
       /\ (lastOp'.kind = "peek" /\ lastOp'.thread = t)
            => /\ lastOp'.result = interrupted[t]
               /\ interrupted'[t] = interrupted[t]
       /\ (lastOp'.kind = "consume" /\ lastOp'.thread = t)
            => /\ lastOp'.result = interrupted[t]
               /\ ~interrupted'[t]
       /\ (~interrupted[t] /\ interrupted'[t])
            => (lastOp'.kind = "interrupt" /\ lastOp'.thread = t)
  ]_vars

\* C7 witness: as in Threading.main (lines 12-13), the first thread, alone
\* so far, has interrupted itself and its consuming query has answered true
\* and cleared the flag.
C7_Witness ==
  /\ lastOp = Op("consume", 1, 1, TRUE)
  /\ ~interrupted[1]
  /\ status[1] = ThreadStatus.RUNNING
  /\ \A t \in Threads \ {1} : status[t] = ThreadStatus.NEW_

\* C8: at most one thread is RUNNING.
C8_AtMostOneRunning ==
  Cardinality({ t \in Threads : status[t] = ThreadStatus.RUNNING }) <= 1

\* C8 witness: a started thread is running where the first thread was
\* preempted and waits to be selected again.
C8_Witness ==
  \E t \in Threads \ {1} :
    /\ status[t] = ThreadStatus.RUNNING
    /\ status[1] = ThreadStatus.RUNNABLE

(***************************************************************************)
(* Claims about the class lifecycle machine and the numeric constants.     *)
(***************************************************************************)
\* The steps NOT_LOADED -> LOADED -> RESOLVED -> INITIALIZED.
ForwardSteps ==
  { << ClassState.NOT_LOADED, ClassState.LOADED >>,
    << ClassState.LOADED, ClassState.RESOLVED >>,
    << ClassState.RESOLVED, ClassState.INITIALIZED >> }

\* C9: under any sequence of advance requests a class state changes only by
\* one of the steps NOT_LOADED -> LOADED -> RESOLVED -> INITIALIZED, each of
\* which raises the numeric value of the state by one; hence it never
\* decreases, never skips a state and never leaves INITIALIZED; and a
\* request for INITIALIZED on an INITIALIZED class is a no-op.
C9_ClassStateMonotonic ==
  [][\A c \in Classes :
       /\ classState'[c] # classState[c] =>
            /\ << classState[c], classState'[c] >> \in ForwardSteps
            /\ classState'[c] = classState[c] + 1
       /\ (/\ classState[c] = ClassState.INITIALIZED
           /\ lastAdvance'.class = c
           /\ lastAdvance'.target = ClassState.INITIALIZED)
            => /\ lastAdvance'.result = "noop"
               /\ classState' = classState
  ]_vars

\* C9 witness: a class that went through every state is INITIALIZED and a
\* repeated request to initialize it was a no-op.
C9_Witness ==
  \E c \in Classes :
    /\ classState[c] = ClassState.INITIALIZED
    /\ lastAdvance = Request(c, ClassState.INITIALIZED, "noop")

\* Both infinity constants lie within [INT_MIN, INT_MAX], and the pattern
\* 0x7F800000 reads as FLOAT_POS_INFINITY_AS_INT.
InfinitiesInRange ==
  /\ INT_MIN <= FLOAT_NEG_INFINITY_AS_INT /\ FLOAT_NEG_INFINITY_AS_INT <= INT_MAX
  /\ INT_MIN <= FLOAT_POS_INFINITY_AS_INT /\ FLOAT_POS_INFINITY_AS_INT <= INT_MAX
  /\ (bits = PosInfinityBits => asInt = FLOAT_POS_INFINITY_AS_INT)

\* C10 as stated: FLOAT_NEG_INFINITY_AS_INT differs from the 32-bit
\* two's-complement reading of 0xFF800000, FLOAT_POS_INFINITY_AS_INT is
\* 0x7F800000, and both lie within [INT_MIN, INT_MAX].
C10_NegInfinityDiffers ==
  /\ (bits = NegInfinityBits => asInt # FLOAT_NEG_INFINITY_AS_INT)
  /\ InfinitiesInRange

\* C10 as amended: FLOAT_NEG_INFINITY_AS_INT equals the 32-bit
\* two's-complement reading of 0xFF800000, FLOAT_POS_INFINITY_AS_INT is
\* 0x7F800000, and both lie within [INT_MIN, INT_MAX].
C10_NegInfinityIsTwosComplement ==
  /\ (bits = NegInfinityBits => asInt = FLOAT_NEG_INFINITY_AS_INT)
  /\ InfinitiesInRange

\* C10 witness: the pattern 0xFF800000 has been read as an integer.
C10_Witness == bits = NegInfinityBits /\ asInt = -8388608

====
